---- MODULE Spec2Model ----
(***************************************************************************)
(* A model of src/vector.h: RawMemory<T> (an owned block of uninitialised  *)
(* slots) and Vector<T> (a growable array built on it).                    *)
(*                                                                         *)
(* The heap maps an address to the block allocated there; a block is a     *)
(* sequence of slots, each slot either Dead (raw memory, no object) or the *)
(* value of the live T object constructed in it.  Every member function of *)
(* Vector is one action; its body is the composition of the element-level  *)
(* steps the C++ performs, written over a machine record m that carries    *)
(* the heap, the vectors, and the exception state.  A call fails at its    *)
(* fuel-th fallible step (allocation, T construction, T assignment), the   *)
(* way a test type that throws on its N-th operation makes it fail.        *)
(***************************************************************************)
EXTENDS Integers, Sequences, FiniteSets, TLC

VARIABLES
    heap,          \* address -> block of slots; <<>> where nothing is allocated
    vec,           \* object name -> the Vector's fields data_ (buffer_, capacity_), size_
    nothrow_move,  \* std::is_nothrow_move_constructible_v<T> (and move-assignable)
    last,          \* the latest call: which, on what, with which arguments, how it ended
    orig,          \* the element sequence a successful Insert found, else <<>>
    pushed,        \* history: the values pushed and not yet popped, oldest first
    npush,         \* history: number of successful PushBack calls
    npop           \* history: number of PopBack calls

vars == <<heap, vec, nothrow_move, last, orig, pushed, npush, npop>>

\* ------------------------------------------------------------------ bounds
MaxCap == 4        \* one Vector: its buffer grows to no more slots than this
MaxCap2 == 3       \* two Vectors: their buffers grow to no more slots together
MaxOps == 6        \* the push/pop histories counted by npush are no longer

Names == {"a", "b"}            \* the Vector objects of the program
NAddr == 3                     \* a block per Vector and one for a local
Addrs == 1..NAddr              \* addresses; 0 is nullptr
\* The values of T.  Vector never inspects a value, so two values that can be
\* told apart show every loss, duplication and reordering of elements.
Vals == {0, 1}
DefaultVal == 0                \* T()
Dead == -1                     \* a slot holding no object
Moved == -2                    \* the value a T holds after being moved from
MaxFail == 2 * MaxCap + 3      \* more fallible steps than any one call makes

Other(x) == IF x = "a" THEN "b" ELSE "a"

\* ------------------------------------------------------- machine primitives
\* m.fuel = k > 0: the k-th fallible step from here throws; 0: none does.
Fails(m) == m.fuel = 1
Spend(m) == [m EXCEPT !.fuel = IF @ > 0 THEN @ - 1 ELSE 0]
\* The step `why` throws
Throw(m, why) == [m EXCEPT !.thrown = TRUE, !.fuel = 0, !.why = why]

Slot(m, a, i) == m.heap[a][i + 1]
IsLive(s) == s # Dead
\* The value of the object in a slot; every use on a slot that holds no
\* object is undefined behaviour and is flagged by FlagUb where it is made.
Read(m, a, i) == Slot(m, a, i)
Put(m, a, i, v) == [m EXCEPT !.heap[a][i + 1] = v]
FlagUb(m, c) == IF c THEN [m EXCEPT !.ub = TRUE] ELSE m
FlagLeak(m, c) == IF c THEN [m EXCEPT !.leak = TRUE] ELSE m

LiveIn(block) == Cardinality({i \in DOMAIN block : IsLive(block[i])})

\* RawMemory::Allocate: operator new, or nullptr for n = 0.  The allocator
\* hands out the lowest free address.
FreeAddr(h) == CHOOSE a \in Addrs : h[a] = <<>> /\ \A b \in Addrs : h[b] = <<>> => a <= b
AllocAddr(m, n) == IF n = 0 THEN 0 ELSE FreeAddr(m.heap)
Allocate(m, n) ==
    IF n = 0 THEN m
    ELSE IF Fails(m) THEN Throw(m, "alloc")
    ELSE [Spend(m) EXCEPT !.heap[FreeAddr(m.heap)] = [i \in 1..n |-> Dead]]

\* RawMemory::Deallocate: operator delete; runs no destructor.
Deallocate(m, a) ==
    IF a = 0 THEN m
    ELSE [FlagLeak(m, LiveIn(m.heap[a]) > 0) EXCEPT !.heap[a] = <<>>]

\* ------------------------------------------------------ operations of T
\* ~T()
DestroyAt(m, a, i) == Put(FlagUb(m, ~IsLive(Slot(m, a, i))), a, i, Dead)

\* new (p) T(args...)
ConstructAt(m, a, i, v) ==
    IF Fails(m) THEN Throw(m, "ctor")
    ELSE Put(FlagLeak(Spend(m), IsLive(Slot(m, a, i))), a, i, v)

\* new (p) T()
ValueConstructAt(m, a, i) == ConstructAt(m, a, i, DefaultVal)

\* new (p) T(const T&)
CopyConstruct(m, fa, fi, ta, ti) ==
    IF Fails(m) THEN Throw(m, "copy")
    ELSE Put(FlagLeak(FlagUb(Spend(m), ~IsLive(Slot(m, fa, fi))),
                      IsLive(Slot(m, ta, ti))),
             ta, ti, Read(m, fa, fi))

\* The state of a moved-from object: still live, value unspecified.
MoveOut(m, fa, fi) == IF IsLive(Slot(m, fa, fi)) THEN Put(m, fa, fi, Moved) ELSE m

\* new (p) T(T&&); cannot throw when T is nothrow-move-constructible
MoveConstruct(m, fa, fi, ta, ti) ==
    IF ~nothrow_move /\ Fails(m) THEN Throw(m, "move")
    ELSE LET m1 == IF nothrow_move THEN m ELSE Spend(m)
             m2 == FlagLeak(FlagUb(m1, ~IsLive(Slot(m, fa, fi))), IsLive(Slot(m, ta, ti)))
         IN MoveOut(Put(m2, ta, ti, Read(m, fa, fi)), fa, fi)

\* T& operator=(const T&); assigning to a slot that holds no object is
\* undefined and starts no lifetime
CopyAssign(m, fa, fi, ta, ti) ==
    IF Fails(m) THEN Throw(m, "copy=")
    ELSE LET m1 == FlagUb(Spend(m), ~IsLive(Slot(m, fa, fi)) \/ ~IsLive(Slot(m, ta, ti)))
         IN IF IsLive(Slot(m, ta, ti)) THEN Put(m1, ta, ti, Read(m, fa, fi)) ELSE m1

\* T& operator=(T&&)
MoveAssign(m, fa, fi, ta, ti) ==
    IF ~nothrow_move /\ Fails(m) THEN Throw(m, "move=")
    ELSE LET m1 == IF nothrow_move THEN m ELSE Spend(m)
             m2 == FlagUb(m1, ~IsLive(Slot(m, fa, fi)) \/ ~IsLive(Slot(m, ta, ti)))
             m3 == IF IsLive(Slot(m, ta, ti)) THEN Put(m2, ta, ti, Read(m, fa, fi)) ELSE m2
         IN IF fa = ta /\ fi = ti THEN m2 ELSE MoveOut(m3, fa, fi)

\* data_[i] = std::move(temp_value), the source a local object holding v
MoveAssignValue(m, ta, ti, v) ==
    IF ~nothrow_move /\ Fails(m) THEN Throw(m, "move=")
    ELSE LET m1 == IF nothrow_move THEN m ELSE Spend(m)
             m2 == FlagUb(m1, ~IsLive(Slot(m, ta, ti)))
         IN IF IsLive(Slot(m, ta, ti)) THEN Put(m2, ta, ti, v) ELSE m2

\* T temp_value(args...): a local object, no slot of the heap
ConstructLocal(m) == IF Fails(m) THEN Throw(m, "ctor") ELSE Spend(m)

\* ------------------------------------------------ <memory> and <algorithm>
RECURSIVE DestroyN(_, _, _, _)
\* std::destroy_n(first, n)
DestroyN(m, a, i, n) ==
    IF n = 0 THEN m ELSE DestroyN(DestroyAt(m, a, i), a, i + 1, n - 1)

RECURSIVE UninitCopyFrom(_, _, _, _, _, _, _)
UninitCopyFrom(m, fa, fi, n, ta, ti, k) ==
    IF k = n THEN m
    ELSE LET m1 == CopyConstruct(m, fa, fi + k, ta, ti + k)
         IN IF m1.thrown THEN DestroyN(m1, ta, ti, k)
            ELSE UninitCopyFrom(m1, fa, fi, n, ta, ti, k + 1)

\* std::uninitialized_copy_n(first, n, d_first): on a throw the objects
\* already constructed are destroyed
UninitializedCopyN(m, fa, fi, n, ta, ti) == UninitCopyFrom(m, fa, fi, n, ta, ti, 0)

RECURSIVE UninitMoveFrom(_, _, _, _, _, _, _)
UninitMoveFrom(m, fa, fi, n, ta, ti, k) ==
    IF k = n THEN m
    ELSE LET m1 == MoveConstruct(m, fa, fi + k, ta, ti + k)
         IN IF m1.thrown THEN DestroyN(m1, ta, ti, k)
            ELSE UninitMoveFrom(m1, fa, fi, n, ta, ti, k + 1)

\* std::uninitialized_move_n(first, n, d_first)
UninitializedMoveN(m, fa, fi, n, ta, ti) == UninitMoveFrom(m, fa, fi, n, ta, ti, 0)

RECURSIVE UninitValueFrom(_, _, _, _, _)
UninitValueFrom(m, a, i, n, k) ==
    IF k = n THEN m
    ELSE LET m1 == ValueConstructAt(m, a, i + k)
         IN IF m1.thrown THEN DestroyN(m1, a, i, k)
            ELSE UninitValueFrom(m1, a, i, n, k + 1)

\* std::uninitialized_value_construct_n(first, n)
UninitializedValueConstructN(m, a, i, n) == UninitValueFrom(m, a, i, n, 0)

RECURSIVE CopyN(_, _, _, _, _, _)
\* std::copy_n(first, n, d_first): copy-assigns front to back
CopyN(m, fa, fi, n, ta, ti) ==
    IF n = 0 THEN m
    ELSE LET m1 == CopyAssign(m, fa, fi, ta, ti)
         IN IF m1.thrown THEN m1 ELSE CopyN(m1, fa, fi + 1, n - 1, ta, ti + 1)

RECURSIVE StdMove(_, _, _, _, _)
\* std::move(first, last, d_first) within one block: move-assigns front to back
StdMove(m, a, first, lst, dfirst) ==
    IF first >= lst THEN m
    ELSE LET m1 == MoveAssign(m, a, first, a, dfirst)
         IN IF m1.thrown THEN m1 ELSE StdMove(m1, a, first + 1, lst, dfirst + 1)

\* Mutant of MoveBackward: the shift made with std::move, front to back
MoveBackward_Forward(m, a, first, lst, dlast) ==
    StdMove(m, a, first, lst, dlast - (lst - first))

RECURSIVE MoveBackward(_, _, _, _, _)
\* std::move_backward(first, last, d_last) within one block: move-assigns
\* back to front, *(--d_last) = std::move(*(--last))
MoveBackward(m, a, first, lst, dlast) ==
    IF first >= lst THEN m
    ELSE LET m1 == MoveAssign(m, a, lst - 1, a, dlast - 1)
         IN IF m1.thrown THEN m1 ELSE MoveBackward(m1, a, first, lst - 1, dlast - 1)

\* ------------------------------------------------------------ RawMemory
Objs == Names \cup {"tmp"}     \* "tmp": the local Vector rhs_copy of operator=
NoVector == [alive |-> FALSE, data_ |-> 0, capacity_ |-> 0, size_ |-> 0]

Data(m, x) == m.vec[x].data_
Size(m, x) == m.vec[x].size_
Capacity(m, x) == m.vec[x].capacity_
SetSize(m, x, n) == [m EXCEPT !.vec[x].size_ = n]
Return(m, a, i) == [m EXCEPT !.ret = <<a, i>>]
\* The handler an exception passed through on its way out of the call
Caught(m, handler) == [m EXCEPT !.at = handler]

\* RawMemory::Swap applied to x.data_ and a local RawMemory (a, c); the local
\* then holds x's former block.
SwapData(m, x, a, c) == [m EXCEPT !.vec[x].data_ = a, !.vec[x].capacity_ = c]

\* RawMemory& operator=(RawMemory&&): x.data_ = std::move(r.data_)
RawMemoryMoveAssign(m, x, r) ==
    LET m1 == Deallocate(m, Data(m, x))
    IN [m1 EXCEPT !.vec[x].data_ = Data(m, r), !.vec[r].data_ = 0,
                  !.vec[x].capacity_ = Capacity(m, r), !.vec[r].capacity_ = 0]

\* RawMemory(RawMemory&&) for the member data_ of a Vector under construction:
\* buffer_ starts as nullptr, so its Deallocate frees nothing
RawMemoryMoveCtor(m, x, r) ==
    LET m1 == Deallocate(m, 0)
    IN [m1 EXCEPT !.vec[x].data_ = Data(m, r), !.vec[r].data_ = 0,
                  !.vec[x].capacity_ = Capacity(m, r), !.vec[r].capacity_ = 0]

\* ---------------------------------------------------------------- Vector
\* Mutant of CopyOrMoveToNewBuffer: elements moved whatever T's move may do
CopyOrMoveToNewBuffer_AlwaysMove(m, fa, fi, ta, ti, n) ==
    UninitializedMoveN(m, fa, fi, n, ta, ti)

CopyOrMoveToNewBuffer(m, fa, fi, ta, ti, n) ==
    IF nothrow_move THEN UninitializedMoveN(m, fa, fi, n, ta, ti)
    ELSE UninitializedCopyN(m, fa, fi, n, ta, ti)

\* Mutant of CalcNewCapacity: room for one more element, not twice the size
CalcNewCapacity_PlusOne(m, x) == Size(m, x) + 1

CalcNewCapacity(m, x) == IF Size(m, x) = 0 THEN 1 ELSE Size(m, x) * 2

\* Vector(size_t size)
SizedCtor(m, x, n) ==
    LET na == AllocAddr(m, n)
        m1 == Allocate(m, n)
        m2 == UninitializedValueConstructN(m1, na, 0, n)
    IN IF m1.thrown THEN m1
       ELSE IF m2.thrown THEN Deallocate(m2, na)
       ELSE [m2 EXCEPT !.vec[x] = [alive |-> TRUE, data_ |-> na, capacity_ |-> n, size_ |-> n]]

\* Mutant of CopyCtor: the buffer pointer copied instead of the elements
CopyCtor_Shallow(m, x, r) ==
    [m EXCEPT !.vec[x] = [m.vec[r] EXCEPT !.alive = TRUE]]

\* Vector(const Vector& other)
CopyCtor(m, x, r) ==
    LET n == Size(m, r)
        na == AllocAddr(m, n)
        m1 == Allocate(m, n)
        m2 == UninitializedCopyN(m1, Data(m, r), 0, n, na, 0)
    IN IF m1.thrown THEN m1
       ELSE IF m2.thrown THEN Deallocate(m2, na)
       ELSE [m2 EXCEPT !.vec[x] = [alive |-> TRUE, data_ |-> na, capacity_ |-> n, size_ |-> n]]

\* Vector(Vector&& other) noexcept
MoveCtor(m, x, r) ==
    LET m1 == RawMemoryMoveCtor(m, x, r)
    IN [m1 EXCEPT !.vec[x].alive = TRUE, !.vec[x].size_ = Size(m, r), !.vec[r].size_ = 0]

\* ~Vector(), then ~RawMemory() of data_
Dtor(m, x) ==
    LET m1 == DestroyN(m, Data(m, x), 0, Size(m, x))
    IN [Deallocate(m1, Data(m, x)) EXCEPT !.vec[x] = NoVector]

\* void Swap(Vector& other) noexcept
Swap(m, x, y) == [m EXCEPT !.vec[x] = m.vec[y], !.vec[y] = m.vec[x]]

\* Mutant of CopyAssignVector: the surplus elements of a longer destination
\* are not destroyed
CopyAssignVector_NoDestroy(m, x, r) ==
    IF x = r THEN m
    ELSE IF Size(m, r) > Capacity(m, x)
    THEN LET m1 == CopyCtor(m, "tmp", r)
         IN IF m1.thrown THEN m1 ELSE Dtor(Swap(m1, x, "tmp"), "tmp")
    ELSE LET sz == Size(m, x)
             rs == Size(m, r)
             mn == IF sz < rs THEN sz ELSE rs
             m1 == CopyN(m, Data(m, r), 0, mn, Data(m, x), 0)
             m2 == IF rs < sz THEN m1
                   ELSE UninitializedCopyN(m1, Data(m, r), sz, rs - sz, Data(m, x), sz)
         IN IF m1.thrown THEN m1
            ELSE IF m2.thrown THEN m2
            ELSE SetSize(m2, x, rs)

\* Mutant of CopyAssignVector: on the growing path the destination's elements
\* are destroyed before the copy of rhs is made
CopyAssignVector_ClearFirst(m, x, r) ==
    IF x = r THEN m
    ELSE IF Size(m, r) > Capacity(m, x)
    THEN LET m0 == SetSize(DestroyN(m, Data(m, x), 0, Size(m, x)), x, 0)
             m1 == CopyCtor(m0, "tmp", r)
         IN IF m1.thrown THEN m1 ELSE Dtor(Swap(m1, x, "tmp"), "tmp")
    ELSE LET sz == Size(m, x)
             rs == Size(m, r)
             mn == IF sz < rs THEN sz ELSE rs
             m1 == CopyN(m, Data(m, r), 0, mn, Data(m, x), 0)
             m2 == IF rs < sz THEN DestroyN(m1, Data(m, x), rs, sz - rs)
                   ELSE UninitializedCopyN(m1, Data(m, r), sz, rs - sz, Data(m, x), sz)
         IN IF m1.thrown THEN m1
            ELSE IF m2.thrown THEN m2
            ELSE SetSize(m2, x, rs)

\* Vector& operator=(const Vector& rhs)
CopyAssignVector(m, x, r) ==
    IF x = r THEN m
    ELSE IF Size(m, r) > Capacity(m, x)
    THEN LET m1 == CopyCtor(m, "tmp", r)
         IN IF m1.thrown THEN m1 ELSE Dtor(Swap(m1, x, "tmp"), "tmp")
    ELSE LET sz == Size(m, x)
             rs == Size(m, r)
             mn == IF sz < rs THEN sz ELSE rs
             m1 == CopyN(m, Data(m, r), 0, mn, Data(m, x), 0)
             m2 == IF rs < sz THEN DestroyN(m1, Data(m, x), rs, sz - rs)
                   ELSE UninitializedCopyN(m1, Data(m, r), sz, rs - sz, Data(m, x), sz)
         IN IF m1.thrown THEN m1
            ELSE IF m2.thrown THEN m2
            ELSE SetSize(m2, x, rs)

\* Mutant of MoveAssignVector: size_ = rhs.size_, the source's size_ kept
MoveAssignVector_KeepsSize(m, x, r) ==
    LET m1 == RawMemoryMoveAssign(m, x, r)
    IN [m1 EXCEPT !.vec[x].size_ = Size(m, r)]

\* Vector& operator=(Vector&& rhs) noexcept
MoveAssignVector(m, x, r) ==
    LET m1 == RawMemoryMoveAssign(m, x, r)
    IN [m1 EXCEPT !.vec[x].size_ = Size(m, r), !.vec[r].size_ = 0]

\* Mutant of Reserve: the old elements are not destroyed before their buffer
\* is released
Reserve_NoDestroy(m, x, capacity) ==
    IF capacity <= Capacity(m, x) THEN m
    ELSE LET na == AllocAddr(m, capacity)
             m1 == Allocate(m, capacity)
             m2 == CopyOrMoveToNewBuffer(m1, Data(m, x), 0, na, 0, Size(m, x))
             m4 == SwapData(m2, x, na, capacity)
         IN IF m1.thrown THEN m1
            ELSE IF m2.thrown THEN Deallocate(m2, na)
            ELSE Deallocate(m4, Data(m, x))

\* Mutant of Reserve: capacity < data_.Capacity() in place of <=
Reserve_StrictLess(m, x, capacity) ==
    IF capacity < Capacity(m, x) THEN m
    ELSE LET na == AllocAddr(m, capacity)
             m1 == Allocate(m, capacity)
             m2 == CopyOrMoveToNewBuffer(m1, Data(m, x), 0, na, 0, Size(m, x))
             m3 == DestroyN(m2, Data(m, x), 0, Size(m, x))
             m4 == SwapData(m3, x, na, capacity)
         IN IF m1.thrown THEN m1
            ELSE IF m2.thrown THEN Deallocate(m2, na)
            ELSE Deallocate(m4, Data(m, x))

\* Mutant of Reserve: the elements moved into the new buffer whatever T's
\* move constructor may do
Reserve_MoveTransfer(m, x, capacity) ==
    IF capacity <= Capacity(m, x) THEN m
    ELSE LET na == AllocAddr(m, capacity)
             m1 == Allocate(m, capacity)
             m2 == UninitializedMoveN(m1, Data(m, x), 0, Size(m, x), na, 0)
             m3 == DestroyN(m2, Data(m, x), 0, Size(m, x))
             m4 == SwapData(m3, x, na, capacity)
         IN IF m1.thrown THEN m1
            ELSE IF m2.thrown THEN Deallocate(m2, na)
            ELSE Deallocate(m4, Data(m, x))

\* void Reserve(size_t capacity)
Reserve(m, x, capacity) ==
    IF capacity <= Capacity(m, x) THEN m
    ELSE LET na == AllocAddr(m, capacity)
             m1 == Allocate(m, capacity)
             m2 == CopyOrMoveToNewBuffer(m1, Data(m, x), 0, na, 0, Size(m, x))
             m3 == DestroyN(m2, Data(m, x), 0, Size(m, x))
             m4 == SwapData(m3, x, na, capacity)
         IN IF m1.thrown THEN m1
            ELSE IF m2.thrown THEN Deallocate(m2, na)
            ELSE Deallocate(m4, Data(m, x))

\* Mutant of Resize: a shrinking Resize moves the elements kept into a
\* buffer of exactly new_size slots
Resize_ShrinkToFit(m, x, new_size) ==
    IF new_size < Size(m, x)
    THEN LET old == Data(m, x)
             m1 == SetSize(DestroyN(m, old, new_size, Size(m, x) - new_size), x, new_size)
             na == AllocAddr(m1, new_size)
             m2 == Allocate(m1, new_size)
             m3 == CopyOrMoveToNewBuffer(m2, old, 0, na, 0, new_size)
             m4 == DestroyN(m3, old, 0, new_size)
         IN IF m2.thrown THEN m2
            ELSE IF m3.thrown THEN Deallocate(m3, na)
            ELSE Deallocate(SwapData(m4, x, na, new_size), old)
    ELSE LET m1 == Reserve(m, x, new_size)
             m2 == UninitializedValueConstructN(m1, Data(m1, x), Size(m, x),
                                                new_size - Size(m, x))
         IN IF m1.thrown THEN m1
            ELSE IF m2.thrown THEN m2
            ELSE SetSize(m2, x, new_size)

\* Mutant of Resize: a growing Resize sets size_ without constructing the
\* elements of the new slots
Resize_NoValueInit(m, x, new_size) ==
    IF new_size < Size(m, x)
    THEN SetSize(DestroyN(m, Data(m, x), new_size, Size(m, x) - new_size), x, new_size)
    ELSE LET m1 == Reserve(m, x, new_size)
         IN IF m1.thrown THEN m1 ELSE SetSize(m1, x, new_size)

\* void Resize(size_t new_size)
Resize(m, x, new_size) ==
    IF new_size < Size(m, x)
    THEN SetSize(DestroyN(m, Data(m, x), new_size, Size(m, x) - new_size), x, new_size)
    ELSE LET m1 == Reserve(m, x, new_size)
             m2 == UninitializedValueConstructN(m1, Data(m1, x), Size(m, x),
                                                new_size - Size(m, x))
         IN IF m1.thrown THEN m1
            ELSE IF m2.thrown THEN m2
            ELSE SetSize(m2, x, new_size)

\* Mutant of PopBack: the element destroyed, size_ not decremented
PopBack_KeepsSize(m, x) == DestroyAt(m, Data(m, x), Size(m, x) - 1)

\* void PopBack() noexcept
PopBack(m, x) == SetSize(DestroyAt(m, Data(m, x), Size(m, x) - 1), x, Size(m, x) - 1)

\* T* ReallocateMemoryAddingNewElement(size_t index, Args&&... args)
ReallocateMemoryAddingNewElement(m, x, index, v) ==
    LET old == Data(m, x)
        sz == Size(m, x)
        ncap == CalcNewCapacity(m, x)
        na == AllocAddr(m, ncap)
        m1 == Allocate(m, ncap)
        m2 == ConstructAt(m1, na, index, v)
        m3 == CopyOrMoveToNewBuffer(m2, old, 0, na, 0, index)
        m4 == DestroyN(m3, old, 0, index)
        m5 == IF index < sz
              THEN CopyOrMoveToNewBuffer(m4, old, index, na, index + 1, sz - index)
              ELSE m4
        m6 == IF index < sz THEN DestroyN(m5, old, index, sz - index) ELSE m5
        m7 == SwapData(m6, x, na, ncap)
    IN IF m1.thrown THEN m1
       ELSE IF m2.thrown THEN Deallocate(m2, na)
       ELSE IF m3.thrown THEN Deallocate(DestroyAt(Caught(m3, "catch1"), na, index), na)
       ELSE IF m5.thrown THEN Deallocate(DestroyN(Caught(m5, "catch2"), na, 0, index + 1), na)
       ELSE Return(SetSize(Deallocate(m7, old), x, sz + 1), na, index)

\* T& EmplaceBack(Args&&... args)
EmplaceBack(m, x, v) ==
    IF Size(m, x) = Capacity(m, x)
    THEN ReallocateMemoryAddingNewElement(m, x, Size(m, x), v)
    ELSE LET m1 == ConstructAt(m, Data(m, x), Size(m, x), v)
         IN IF m1.thrown THEN m1
            ELSE Return(SetSize(m1, x, Size(m, x) + 1), Data(m, x), Size(m, x))

\* void PushBack(const T& value)
PushBack(m, x, v) == EmplaceBack(m, x, v)

\* iterator Emplace(const_iterator pos, Args&&... args), pos = begin() + index
Emplace(m, x, index, v) ==
    IF index = Size(m, x) THEN EmplaceBack(m, x, v)
    ELSE IF Size(m, x) = Capacity(m, x)
    THEN ReallocateMemoryAddingNewElement(m, x, index, v)
    ELSE LET d == Data(m, x)
             sz == Size(m, x)
             m1 == ConstructLocal(m)
             m2 == MoveConstruct(m1, d, sz - 1, d, sz)
             m3 == MoveBackward(m2, d, index, sz - 1, sz)
             m4 == MoveAssignValue(m3, d, index, v)
         IN IF m1.thrown THEN m1
            ELSE IF m2.thrown THEN m2
            ELSE IF m3.thrown THEN m3
            ELSE IF m4.thrown THEN m4
            ELSE Return(SetSize(m4, x, sz + 1), d, index)

\* iterator Insert(const_iterator pos, const T& value)
Insert(m, x, index, v) == Emplace(m, x, index, v)

\* Mutant of Erase: data_[index].~T() in place of data_[size_ - 1].~T()
Erase_DestroysAtIndex(m, x, index) ==
    LET d == Data(m, x)
        sz == Size(m, x)
        m1 == StdMove(m, d, index + 1, sz, index)
    IN IF m1.thrown THEN m1
       ELSE Return(SetSize(DestroyAt(m1, d, index), x, sz - 1), d, index)

\* Mutant of Erase: the last element dropped, nothing shifted
Erase_NoShift(m, x, index) ==
    LET d == Data(m, x)
        sz == Size(m, x)
    IN Return(SetSize(DestroyAt(m, d, sz - 1), x, sz - 1), d, index)

\* iterator Erase(const_iterator pos), pos = begin() + index
Erase(m, x, index) ==
    LET d == Data(m, x)
        sz == Size(m, x)
        m1 == StdMove(m, d, index + 1, sz, index)
    IN IF m1.thrown THEN m1
       ELSE Return(SetSize(DestroyAt(m1, d, sz - 1), x, sz - 1), d, index)

\* v[index] = value: T& operator[](size_t) and T's copy assignment
AssignAt(m, x, index, v) ==
    IF Fails(m) THEN Throw(m, "copy=")
    ELSE LET m1 == FlagUb(Spend(m), ~IsLive(Slot(m, Data(m, x), index)))
         IN IF IsLive(Slot(m, Data(m, x), index)) THEN Put(m1, Data(m, x), index, v) ELSE m1

\* ------------------------------------------------------- observations
Alive(x) == vec[x].alive
\* The elements of x as operator[] reads them, indices 0..Size()-1, in the
\* state with heap h and Vectors vc
ElemsIn(h, vc, x) == [i \in 1..vc[x].size_ |-> h[vc[x].data_][i]]
Elems(x) == ElemsIn(heap, vec, x)
\* The slots of x's buffer
BlockIn(h, vc, x) == IF vc[x].data_ = 0 THEN <<>> ELSE h[vc[x].data_]
BlockOf(x) == BlockIn(heap, vec, x)
\* Number of live T objects in the whole heap
LiveCount == LET n[a \in 0..NAddr] == IF a = 0 THEN 0 ELSE n[a - 1] + LiveIn(heap[a])
             IN n[NAddr]
AllLive(x) == \A i \in 1..vec[x].size_ : i <= Len(BlockOf(x)) /\ IsLive(BlockOf(x)[i])

\* ------------------------------------------------------------- actions
NoCall == [op |-> "none", x |-> "a", rhs |-> "a", idx |-> 0, val |-> 0, ok |-> TRUE,
           why |-> "", at |-> "", ret |-> <<0, 0>>, leak |-> FALSE, ub |-> FALSE,
           after |-> "", path |-> ""]

Copies == {"Vector(const&)", "=(const&)"}
Moves == {"Vector(&&)", "=(&&)"}
Mutators == {"Reserve", "Resize", "PushBack", "PopBack", "Insert", "Erase", "[]=", "~Vector"}

Init ==
    /\ heap = [a \in Addrs |-> <<>>]
    /\ vec = [x \in Objs |-> IF x = "a" THEN [NoVector EXCEPT !.alive = TRUE] ELSE NoVector]
    /\ nothrow_move \in BOOLEAN
    /\ last = NoCall
    /\ orig = <<>>
    /\ pushed = <<>>
    /\ npush = 0
    /\ npop = 0

\* The representation invariant of Vector: size_ <= capacity, the slots
\* [0, size_) of the buffer hold objects and the slots [size_, capacity) none.
RepOk(x) ==
    /\ vec[x].size_ <= vec[x].capacity_
    /\ Len(BlockOf(x)) = vec[x].capacity_
    /\ \A i \in 1..vec[x].capacity_ : IsLive(BlockOf(x)[i]) <=> i <= vec[x].size_

\* The program calls member functions on Vectors that satisfy RepOk; a Vector
\* that a failed call left outside it is not used again, only destroyed (on a
\* slot of [0, size_) without an object every member function is undefined).
Usable(x) == Alive(x) /\ RepOk(x)

Start(f) == [heap |-> heap, vec |-> vec, fuel |-> f, thrown |-> FALSE,
             leak |-> FALSE, ub |-> FALSE, ret |-> <<0, 0>>, at |-> "", why |-> ""]

\* A specification B bounds the buffers (B.cap) and says whether the history
\* keeps the arguments and the result of each call (B.args).
One == [cap |-> MaxCap, args |-> TRUE]
Two == [cap |-> MaxCap2, args |-> FALSE]

\* What the call before this one, op on x, set up: "Insert" when it was a
\* successful Insert at the same position of x and this is an Erase, "copy"
\* when it made x and another Vector copies of one another and this call
\* mutates one of the two.
After(B, op, x, idx) ==
    IF B.args /\ op = "Erase" /\ last.op = "Insert" /\ last.ok /\ last.x = x /\ last.idx = idx
    THEN "Insert"
    ELSE IF op \in Mutators /\ last.op \in Copies /\ last.ok /\ last.x # last.rhs
    THEN "copy"
    ELSE ""

\* The branch the call op on x takes, by the conditions the code tests on
\* entry: Reserve returns at once or reallocates, Resize shrinks, grows or
\* (new_size = size_, on the growing branch) keeps the size,
\* PushBack and Insert construct in place or reallocate.
Path(B, op, x, idx) ==
    IF ~B.args THEN ""
    ELSE IF op = "Reserve"
    THEN (IF idx <= vec[x].capacity_ THEN "return" ELSE "realloc")
    ELSE IF op = "Resize" /\ idx = vec[x].size_ THEN "same"
    ELSE IF op = "Resize"
    THEN (IF idx < vec[x].size_ THEN "shrink" ELSE "grow")
    ELSE IF op \in {"PushBack", "Insert"}
    THEN (IF vec[x].size_ = vec[x].capacity_ THEN "realloc" ELSE "inplace")
    ELSE ""

\* The call op(x, rhs, idx, val) ended in machine state m.  Of a call that
\* threw, the history keeps the position only for PushBack and Insert, the
\* step that threw and the catch handler the exception passed through.
Commit(B, op, x, rhs, idx, val, m) ==
    /\ heap' = m.heap
    /\ vec' = m.vec
    /\ last' = [op |-> op, x |-> x, rhs |-> rhs,
                idx |-> IF ~B.args \/ (m.thrown /\ op \notin {"PushBack", "Insert"})
                        THEN 0 ELSE idx,
                val |-> IF ~B.args \/ m.thrown THEN 0 ELSE val,
                ok |-> ~m.thrown, why |-> m.why, at |-> m.at,
                ret |-> IF ~B.args \/ m.thrown THEN <<0, 0>> ELSE m.ret,
                leak |-> m.leak, ub |-> m.ub,
                after |-> IF m.thrown THEN "" ELSE After(B, op, x, idx),
                path |-> IF m.thrown THEN "" ELSE Path(B, op, x, idx)]
    /\ orig' = IF B.args /\ op = "Insert" /\ ~m.thrown THEN Elems(x) ELSE <<>>
    /\ UNCHANGED nothrow_move

\* The call whose run with fuel f is Run(f), once for each way it can end:
\* without a failure (fuel 0), or failing at any one of its fallible steps.
Call(B, op, x, rhs, idx, val, Run(_)) ==
    \E f \in 0..(MaxFail - Run(MaxFail).fuel) : Commit(B, op, x, rhs, idx, val, Run(f))

\* x may hold a buffer of c slots without the buffers growing past B.cap
\* slots together
Fits(B, x, c) == c <= vec[x].capacity_ \/ c + vec[Other(x)].capacity_ <= B.cap

NoHistory == UNCHANGED <<pushed, npush, npop>>

DefaultCtorCall(B, x) ==
    /\ ~Alive(x)
    /\ Commit(B, "Vector()", x, x, 0, 0, [Start(0) EXCEPT !.vec[x].alive = TRUE])

SizedCtorCall(B, x) ==
    /\ ~Alive(x)
    /\ \E n \in 0..B.cap :
          /\ Fits(B, x, n)
          /\ Call(B, "Vector(n)", x, x, n, 0, LAMBDA f : SizedCtor(Start(f), x, n))

CopyCtorCall(B, x) ==
    /\ ~Alive(x) /\ Usable(Other(x))
    /\ Fits(B, x, vec[Other(x)].size_)
    /\ Call(B, "Vector(const&)", x, Other(x), 0, 0,
            LAMBDA f : CopyCtor(Start(f), x, Other(x)))

MoveCtorCall(B, x) ==
    /\ ~Alive(x) /\ Usable(Other(x))
    /\ Commit(B, "Vector(&&)", x, Other(x), 0, 0, MoveCtor(Start(0), x, Other(x)))

DtorCall(B, x) ==
    /\ Alive(x)
    /\ Commit(B, "~Vector", x, x, 0, 0, Dtor(Start(0), x))

\* a = b and the self-assignment a = a
CopyAssignCall(B, x) ==
    /\ Usable(x)
    /\ \E r \in Names :
          /\ Usable(r)
          /\ Fits(B, x, vec[r].size_)
          /\ Call(B, "=(const&)", x, r, 0, 0,
                  LAMBDA f : CopyAssignVector(Start(f), x, r))

\* a = std::move(b); moving a Vector onto itself is outside the contract
MoveAssignCall(B, x) ==
    /\ Usable(x) /\ Usable(Other(x))
    /\ Commit(B, "=(&&)", x, Other(x), 0, 0, MoveAssignVector(Start(0), x, Other(x)))

ReserveCall(B, x) ==
    /\ Usable(x)
    /\ \E c \in 0..B.cap :
          /\ Fits(B, x, c)
          /\ Call(B, "Reserve", x, x, c, 0, LAMBDA f : Reserve(Start(f), x, c))

ResizeCall(B, x) ==
    /\ Usable(x)
    /\ \E n \in 0..B.cap :
          /\ Fits(B, x, n)
          /\ Call(B, "Resize", x, x, n, 0, LAMBDA f : Resize(Start(f), x, n))

\* The capacity x has after one more element
Grown(x) ==
    IF vec[x].size_ < vec[x].capacity_ THEN vec[x].capacity_
    ELSE IF vec[x].size_ = 0 THEN 1 ELSE vec[x].size_ * 2

PushBackCall(B, x) ==
    /\ Usable(x) /\ Fits(B, x, Grown(x))
    /\ \E v \in Vals :
          Call(B, "PushBack", x, x, vec[x].size_, v,
               LAMBDA f : PushBack(Start(f), x, v))

PopBackCall(B, x) ==
    /\ Usable(x) /\ vec[x].size_ > 0
    /\ Commit(B, "PopBack", x, x, 0, 0, PopBack(Start(0), x))

InsertCall(B, x) ==
    /\ Usable(x) /\ Fits(B, x, Grown(x))
    /\ \E i \in 0..vec[x].size_, v \in Vals :
          Call(B, "Insert", x, x, i, v, LAMBDA f : Insert(Start(f), x, i, v))

EraseCall(B, x) ==
    /\ Usable(x)
    /\ \E i \in 0..(vec[x].size_ - 1) :
          Call(B, "Erase", x, x, i, 0, LAMBDA f : Erase(Start(f), x, i))

AssignAtCall(B, x) ==
    /\ Usable(x)
    /\ \E i \in 0..(vec[x].size_ - 1), v \in Vals :
          Call(B, "[]=", x, x, i, v, LAMBDA f : AssignAt(Start(f), x, i, v))

\* One Vector, constructed, used and destroyed
Next ==
    \/ DefaultCtorCall(One, "a") /\ NoHistory
    \/ SizedCtorCall(One, "a") /\ NoHistory
    \/ DtorCall(One, "a") /\ NoHistory
    \/ ReserveCall(One, "a") /\ NoHistory
    \/ ResizeCall(One, "a") /\ NoHistory
    \/ PushBackCall(One, "a") /\ NoHistory
    \/ PopBackCall(One, "a") /\ NoHistory
    \/ InsertCall(One, "a") /\ NoHistory
    \/ EraseCall(One, "a") /\ NoHistory
    \/ AssignAtCall(One, "a") /\ NoHistory

Spec == Init /\ [][Next]_vars

\* Two Vectors, copied and moved into one another
Next2 ==
    \E x \in Names :
        \/ DefaultCtorCall(Two, x) /\ NoHistory
        \/ SizedCtorCall(Two, x) /\ NoHistory
        \/ CopyCtorCall(Two, x) /\ NoHistory
        \/ MoveCtorCall(Two, x) /\ NoHistory
        \/ DtorCall(Two, x) /\ NoHistory
        \/ CopyAssignCall(Two, x) /\ NoHistory
        \/ MoveAssignCall(Two, x) /\ NoHistory
        \/ ReserveCall(Two, x) /\ NoHistory
        \/ ResizeCall(Two, x) /\ NoHistory
        \/ PushBackCall(Two, x) /\ NoHistory
        \/ PopBackCall(Two, x) /\ NoHistory
        \/ InsertCall(Two, x) /\ NoHistory
        \/ EraseCall(Two, x) /\ NoHistory
        \/ AssignAtCall(Two, x) /\ NoHistory

\* T nothrow-move-constructible, as the element types of the two-Vector runs
Init2 == Init /\ nothrow_move = TRUE

Spec2 == Init2 /\ [][Next2]_vars

\* One initially empty Vector under PushBack and PopBack alone, with the
\* history of what was pushed and popped
PushBackCounted ==
    /\ npush < MaxOps
    /\ PushBackCall(One, "a")
    /\ IF last'.ok
       THEN npush' = npush + 1 /\ pushed' = Append(pushed, last'.val)
       ELSE UNCHANGED <<npush, pushed>>
    /\ UNCHANGED npop

PopBackCounted ==
    /\ PopBackCall(One, "a")
    /\ npop' = npop + 1
    /\ pushed' = SubSeq(pushed, 1, Len(pushed) - 1)
    /\ UNCHANGED npush

NextPushPop == PushBackCounted \/ PopBackCounted

SpecPushPop == Init /\ [][NextPushPop]_vars

\* Two Vectors built, overwritten and copy-assigned to one another, their
\* buffers together as large as the one Vector's of Spec
Three == [cap |-> MaxCap, args |-> FALSE]

NextCopy ==
    \E x \in Names :
        \/ DefaultCtorCall(Three, x) /\ NoHistory
        \/ SizedCtorCall(Three, x) /\ NoHistory
        \/ DtorCall(Three, x) /\ NoHistory
        \/ CopyAssignCall(Three, x) /\ NoHistory
        \/ AssignAtCall(Three, x) /\ NoHistory

SpecCopy == Init /\ [][NextCopy]_vars

\* ---------------------------------------------------------------- claims
\* Sequences with 0-based positions, as the claims state them
InsertAt(s, i, v) == SubSeq(s, 1, i) \o <<v>> \o SubSeq(s, i + 1, Len(s))
RemoveAt(s, i) == SubSeq(s, 1, i) \o SubSeq(s, i + 2, Len(s))

\* C1: after any sequence of calls, also calls that end by propagating a
\* construction, copy or allocation failure, every Vector has
\* 0 <= Size() <= Capacity(), a live element in every slot of [0, Size()) and
\* none in [Size(), Capacity()).  (A call that a throwing move assignment
\* ended is left out: the claim does not name that failure.)
C1_RepInvariant ==
    last.why # "move=" => \A x \in Names : Alive(x) => RepOk(x)

\* C2: Insert at an index < Size() into a full Vector of a T transferred by
\* copy: when the copy of an element of the trailing segment fails after the
\* leading segment was transferred, the Vector, its buffer and every element
\* are as before the call, the new buffer is released with nothing live in
\* it, and no element is leaked or destroyed twice.
C2_TrailingFailureRestores ==
    [][(/\ last'.op = "Insert" /\ ~last'.ok
        /\ last'.why = "copy" /\ last'.at = "catch2"
        /\ vec[last'.x].size_ = vec[last'.x].capacity_
        /\ last'.idx < vec[last'.x].size_)
       => (vec' = vec /\ heap' = heap /\ ~last'.leak /\ ~last'.ub)]_vars

\* C3: PushBack on a full Vector that fails, at the allocation, at the
\* construction of the new element or at the copy of any element, leaves
\* Size(), Capacity(), the buffer and every element value as before the call
\* and as many live elements as before.
C3_PushBackStrong ==
    [][(/\ last'.op = "PushBack" /\ ~last'.ok
        /\ vec[last'.x].size_ = vec[last'.x].capacity_)
       => (/\ vec' = vec /\ heap' = heap /\ LiveCount' = LiveCount
           /\ ~last'.leak /\ ~last'.ub)]_vars

\* A PushBack on a full Vector of two elements failed copying an element.
C3_Witness ==
    /\ last.op = "PushBack" /\ ~last.ok /\ last.why = "copy"
    /\ vec[last.x].size_ = vec[last.x].capacity_
    /\ vec[last.x].size_ >= 2

\* C4: under PushBack and PopBack on an initially empty Vector, Size() is
\* the number of pushes minus the number of pops, and the elements at
\* 0..Size()-1 are the values pushed and not yet popped, in push order.
C4_PushPop ==
    /\ vec["a"].size_ = npush - npop
    /\ Elems("a") = pushed

\* Pushes and a pop have left three elements, not all equal, in a buffer
\* that was reallocated on the way.
C4_Witness ==
    /\ npop >= 1 /\ npush >= 4
    /\ vec["a"].size_ = 3 /\ vec["a"].capacity_ = 4
    /\ pushed[1] # pushed[2]

\* C5: a successful Insert of v at index i <= Size() into the sequence s
\* yields s[0..i) ++ [v] ++ s[i..), makes Size() one larger and returns the
\* cursor begin() + i of the resulting Vector, on every path.
C5_Insert ==
    [][(last'.op = "Insert" /\ last'.ok)
       => (/\ ElemsIn(heap', vec', last'.x) = InsertAt(Elems(last'.x), last'.idx, last'.val)
           /\ vec'[last'.x].size_ = vec[last'.x].size_ + 1
           /\ last'.ret = <<vec'[last'.x].data_, last'.idx>>)]_vars

\* An Insert before the last of three elements, two of which it shifted.
C5_Witness ==
    /\ last.op = "Insert" /\ last.ok /\ last.idx = 1
    /\ vec[last.x].size_ = 4
    /\ Elems(last.x)[1] # Elems(last.x)[3]

\* C6: Erase at index i < Size() removes exactly element i, keeps the order
\* of the others, makes Size() one smaller, leaves Capacity() and the buffer
\* alone, leaves one live element fewer and returns the cursor begin() + i.
C6_Erase ==
    [][(last'.op = "Erase" /\ last'.ok)
       => (/\ ElemsIn(heap', vec', last'.x) = RemoveAt(Elems(last'.x), last'.idx)
           /\ vec'[last'.x].size_ = vec[last'.x].size_ - 1
           /\ vec'[last'.x].capacity_ = vec[last'.x].capacity_
           /\ vec'[last'.x].data_ = vec[last'.x].data_
           /\ LiveCount' = LiveCount - 1
           /\ last'.ret = <<vec[last'.x].data_, last'.idx>>)]_vars

\* An Erase of the first of at least three elements, which shifted two.
C6_Witness ==
    /\ last.op = "Erase" /\ last.ok /\ last.idx = 0
    /\ vec[last.x].size_ >= 2
    /\ Elems(last.x)[1] # Elems(last.x)[2]

\* C7: a successful Insert(i, v) followed at once by Erase(i) restores the
\* element sequence and the Size() the Insert found.
C7_InsertErase ==
    [][last'.after = "Insert"
       => (ElemsIn(heap', vec', last'.x) = orig /\ vec'[last'.x].size_ = Len(orig))]_vars

\* An Erase has undone an Insert into the interior of a sequence.
C7_Witness ==
    /\ last.after = "Insert" /\ last.idx = 1
    /\ vec[last.x].size_ >= 2

\* C8: move construction and move assignment from another Vector leave the
\* source with Size() 0, Capacity() 0 and no buffer, and give the destination
\* the source's former buffer, Size(), Capacity() and elements; no element
\* of that buffer is constructed, copied or moved.
C8_Move ==
    [][last'.op \in Moves
       => (/\ vec'[last'.rhs].size_ = 0
           /\ vec'[last'.rhs].capacity_ = 0
           /\ vec'[last'.rhs].data_ = 0
           /\ vec'[last'.x].data_ = vec[last'.rhs].data_
           /\ vec'[last'.x].size_ = vec[last'.rhs].size_
           /\ vec'[last'.x].capacity_ = vec[last'.rhs].capacity_
           /\ ElemsIn(heap', vec', last'.x) = Elems(last'.rhs)
           /\ BlockIn(heap', vec', last'.x) = BlockOf(last'.rhs))]_vars

\* A move assignment has handed over a buffer with two elements.
C8_Witness ==
    /\ last.op = "=(&&)"
    /\ vec[last.x].size_ >= 2
    /\ Elems(last.x)[1] # Elems(last.x)[2]

\* C9: after a copy construction or copy assignment the two Vectors hold
\* equal sequences in distinct buffers, and a mutating call on one Vector
\* (Reserve, Resize, PushBack, PopBack, Insert, Erase, element overwrite,
\* destruction), whether it succeeds or fails, leaves the other Vector's
\* Size(), Capacity(), buffer and elements as they were.
C9_Independent ==
    [][/\ (last'.op \in Copies /\ last'.ok /\ last'.x # last'.rhs)
          => (/\ ElemsIn(heap', vec', last'.x) = ElemsIn(heap', vec', last'.rhs)
              /\ (vec'[last'.x].data_ = 0 \/ vec'[last'.x].data_ # vec'[last'.rhs].data_))
       /\ (last'.op \in Mutators /\ Alive(Other(last'.x)))
          => (/\ vec'[Other(last'.x)] = vec[Other(last'.x)]
              /\ BlockIn(heap', vec', Other(last'.x)) = BlockOf(Other(last'.x)))]_vars

\* Right after a copy, one of the two Vectors was given another element
\* while the other holds an element.
C9_Witness ==
    /\ last.after = "copy" /\ last.op \in {"PushBack", "Insert"}
    /\ vec[Other(last.x)].size_ >= 1
    /\ vec[last.x].size_ = vec[Other(last.x)].size_ + 1

C11_CopyAssignStrong ==
    [][(/\ last'.op = "=(const&)" /\ ~last'.ok
        /\ vec[last'.rhs].size_ > vec[last'.x].capacity_)
       => (/\ vec' = vec /\ heap' = heap /\ LiveCount' = LiveCount
           /\ ~last'.leak /\ ~last'.ub)]_vars

\* A copy assignment from a Vector of two elements to a Vector with a
\* smaller buffer that holds an element failed copying an element.
C11_Witness ==
    /\ last.op = "=(const&)" /\ ~last.ok /\ last.why = "copy"
    /\ vec[last.rhs].size_ = 2
    /\ vec[last.x].capacity_ = 1 /\ vec[last.x].size_ = 1

\* C12: a successful PushBack or Insert on a full Vector makes Capacity()
\* exactly max(1, 2 * old Size()); on a Vector with a free slot it leaves
\* Capacity() and the buffer as they were.
C12_Growth ==
    [][(last'.op \in {"PushBack", "Insert"} /\ last'.ok)
       => IF vec[last'.x].size_ = vec[last'.x].capacity_
          THEN vec'[last'.x].capacity_
                  = (IF vec[last'.x].size_ = 0 THEN 1 ELSE 2 * vec[last'.x].size_)
          ELSE /\ vec'[last'.x].capacity_ = vec[last'.x].capacity_
               /\ vec'[last'.x].data_ = vec[last'.x].data_]_vars

\* An Insert into a full Vector of two elements has reallocated.
C12_Witness ==
    /\ last.op = "Insert" /\ last.ok /\ last.path = "realloc"
    /\ vec[last.x].size_ = 3 /\ vec[last.x].capacity_ = 4

\* C13: a successful Reserve(c) with c > Capacity() makes Capacity() exactly
\* c and leaves Size() and the elements, their values and order, as they
\* were; the old buffer holds no live element when it is released.
C13_Reserve ==
    [][(/\ last'.op = "Reserve" /\ last'.ok
        /\ last'.idx > vec[last'.x].capacity_)
       => (/\ vec'[last'.x].capacity_ = last'.idx
           /\ vec'[last'.x].size_ = vec[last'.x].size_
           /\ ElemsIn(heap', vec', last'.x) = Elems(last'.x)
           /\ LiveCount' = LiveCount
           /\ ~last'.leak /\ ~last'.ub)]_vars

\* A Reserve has carried two different elements into a larger buffer.
C13_Witness ==
    /\ last.op = "Reserve" /\ last.ok /\ last.path = "realloc"
    /\ vec[last.x].size_ >= 2 /\ vec[last.x].capacity_ = last.idx
    /\ Elems(last.x)[1] # Elems(last.x)[2]

\* C14: Reserve(c) with c <= Capacity() changes nothing: the buffer and its
\* address, Capacity(), Size() and every slot are as before, and no element
\* is constructed, copied, moved or destroyed.
C14_ReserveNoop ==
    [][(/\ last'.op = "Reserve" /\ last'.ok
        /\ last'.idx <= vec[last'.x].capacity_)
       => (/\ vec' = vec /\ heap' = heap
           /\ ~last'.leak /\ ~last'.ub)]_vars

\* A Reserve of exactly the capacity of a Vector that holds an element.
C14_Witness ==
    /\ last.op = "Reserve" /\ last.ok /\ last.path = "return"
    /\ last.idx = vec[last.x].capacity_
    /\ vec[last.x].size_ >= 1

\* C15: a Reserve(c) with c > Capacity() of a T that is transferred by copy
\* which fails, at the allocation or at the copy of any element, leaves the
\* Vector, its buffer and every element as before the call; the elements
\* copied into the new buffer are destroyed and the new buffer is released.
C15_ReserveStrong ==
    [][(last'.op = "Reserve" /\ ~last'.ok /\ ~nothrow_move)
       => (/\ vec' = vec /\ heap' = heap /\ LiveCount' = LiveCount
           /\ ~last'.leak /\ ~last'.ub)]_vars

\* A Reserve on a Vector of at least two elements failed copying one.
C15_Witness ==
    /\ last.op = "Reserve" /\ ~last.ok /\ last.why = "copy" /\ ~nothrow_move
    /\ vec[last.x].size_ >= 2

\* C16: over Reserve, Resize, PushBack, PopBack, Insert and Erase calls on
\* a Vector, successful or failing, Capacity() never decreases from one call
\* to the next.
C16_CapacityMonotone ==
    [][last'.op \in {"Reserve", "Resize", "PushBack", "PopBack", "Insert", "Erase"}
       => vec'[last'.x].capacity_ >= vec[last'.x].capacity_]_vars

\* A Resize has emptied a Vector with a buffer of two slots or more.
C16_Witness ==
    /\ last.op = "Resize" /\ last.ok /\ last.path = "shrink"
    /\ vec[last.x].size_ = 0 /\ vec[last.x].capacity_ >= 2

\* C17: a successful Resize(n) ends with Size() = n.  For n below the old
\* Size() the elements [n, old Size()) are destroyed and the elements [0, n)
\* and Capacity() are as before; otherwise the elements [0, old Size()) keep
\* value and order, the slots [old Size(), n) hold T() and Capacity() is the
\* larger of the old Capacity() and n.
C17_Resize ==
    [][(last'.op = "Resize" /\ last'.ok)
       => /\ vec'[last'.x].size_ = last'.idx
          /\ IF last'.idx < vec[last'.x].size_
             THEN /\ ElemsIn(heap', vec', last'.x) = SubSeq(Elems(last'.x), 1, last'.idx)
                  /\ vec'[last'.x].capacity_ = vec[last'.x].capacity_
                  /\ LiveCount' = LiveCount - (vec[last'.x].size_ - last'.idx)
             ELSE /\ SubSeq(ElemsIn(heap', vec', last'.x), 1, vec[last'.x].size_)
                        = Elems(last'.x)
                  /\ \A i \in (vec[last'.x].size_ + 1)..last'.idx :
                        ElemsIn(heap', vec', last'.x)[i] = DefaultVal
                  /\ vec'[last'.x].capacity_
                        = (IF last'.idx > vec[last'.x].capacity_
                           THEN last'.idx ELSE vec[last'.x].capacity_)]_vars

\* A Resize has grown a Vector to three elements in a buffer of three, the
\* first of them other than T().
C17_Witness ==
    /\ last.op = "Resize" /\ last.ok /\ last.path = "grow"
    /\ vec[last.x].size_ = 3 /\ vec[last.x].capacity_ = 3
    /\ Elems(last.x)[1] # DefaultVal

\* C18: an Insert at an index < Size() into a Vector with a free slot that
\* fails, at the construction of the temporary, at the move construction of
\* the new last slot or at a move assignment of the shift, leaves a valid
\* Vector: every slot of [0, Size()) holds a live element, no slot outside it
\* does, and no element is leaked or destroyed twice.  (A failed Insert
\* leaves size_ and the capacity as they were, so the state after the call
\* tells the branch it took.)
C18_InPlaceFailure ==
    (/\ last.op = "Insert" /\ ~last.ok
     /\ vec[last.x].size_ < vec[last.x].capacity_
     /\ last.idx < vec[last.x].size_)
    => (RepOk(last.x) /\ ~last.leak /\ ~last.ub)

\* C19: whenever a call releases a buffer (the destructor, the move
\* assignment that drops the destination's former buffer, the old or the
\* scratch buffer of a reallocation or of copy-and-swap), no slot of that
\* buffer holds a live element, and no element is destroyed a second time:
\* no call ends having released a live element or destroyed a dead slot.
C19_ReleasedEmpty == ~last.leak /\ ~last.ub

\* C20: in a reallocating PushBack or Insert no element of the old buffer is
\* destroyed while an existing element is still untransferred: whichever
\* step the call fails at (allocation, construction of the new element,
\* transfer of the leading or of the trailing segment), every element of
\* [0, Size()) of the old buffer, which the Vector keeps, is still live.
\* (A failed call leaves size_ and the capacity as they were, so the state
\* after the call tells the branch it took.)
C20_OldIntactUntilTransferred ==
    (/\ last.op \in {"PushBack", "Insert"} /\ ~last.ok
     /\ vec[last.x].size_ = vec[last.x].capacity_)
    => AllLive(last.x)

====
